---- MODULE Spec2Model ----
(***************************************************************************)
(* Model of src/main.py: the S3 bucket size probe.                         *)
(*                                                                         *)
(*   get_s3_bucket_size_bytes  walks the list_objects_v2 paginator and     *)
(*                             sums item['Size'] over page['Contents'];    *)
(*   send_metric               builds a MeterProvider, registers it        *)
(*                             process-wide, sets one gauge and calls      *)
(*                             provider.force_flush();                     *)
(*   collect_metric            the first, then the second;                 *)
(*   main                      one collect_metric per process.             *)
(*                                                                         *)
(* The listing service and the telemetry SDK are the environment: the      *)
(* service picks each page when it is requested, the SDK picks the outcome *)
(* of the export.  Object sizes are small numbers (TLC's integers are 32   *)
(* bits wide; Python's int is unbounded, so no width is modelled).         *)
(***************************************************************************)
EXTENDS Integers, Sequences, FiniteSets, TLC

VARIABLES
    calls,          \* how many times the caller invokes collect_metric
    inv,            \* invocations of collect_metric started so far
    pc,             \* position of the single thread of control
    error,          \* the exception propagating, "none" when there is none
    args,           \* the otel_* arguments of collect_metric
    total_size,     \* get_s3_bucket_size_bytes: local total_size
    page,           \* get_s3_bucket_size_bytes: loop variable page
    token,          \* the paginator's continuation token for the next request
    s3_size_bytes,  \* collect_metric: local s3_size_bytes
    requests,       \* listing service: the tokens it was asked with, in order
    returned,       \* listing service: the tokens it handed out, in order
    expected,       \* listing service: bytes of all objects it listed so far
    visited,        \* pages the loop body has run on
    fault,          \* listing service: it failed a request or sent a page
                    \*   the loop body cannot read
    noSizeSeen,     \* listing service: it sent an item without 'Size'
    globalProvider, \* opentelemetry.metrics: the process-wide MeterProvider
    providers,      \* the MeterProvider objects alive, by id
    sendArgs,       \* the arguments send_metric was called with
    prevValue,      \* the value of the process's previous send_metric call
    sendCalls,      \* calls of send_metric in this invocation
    flushes,        \* calls of provider.force_flush() in this invocation
    exportState,    \* the forced export: none, inflight, ok, failed, raised
    inflight,       \* the observations the forced export carries
    collector       \* the observations this invocation's export delivered

vars == <<calls, inv, pc, error, args, total_size, page, token, s3_size_bytes,
          requests, returned, expected, visited, fault, noSizeSeen,
          globalProvider, providers, sendArgs, prevValue, sendCalls, flushes,
          exportState, inflight, collector>>

----------------------------------------------------------------------------
(* Bounds of the model. *)

MaxPages == 3
MaxObjs == 2
MaxSize == 2
MaxInvocations == 2

(* Absent values. *)

NoToken == 0
NoValue == -1
NoProvider == 0

----------------------------------------------------------------------------
(* Inputs. *)

ServiceNames == {"s3_monitoring", "backup_probe"}
MetricNames == {"s3_size", "bucket_bytes"}
Endpoints == {"http://localhost:4317"}
AttributeSets ==
    { [namespace |-> "monitoring", role |-> "metrics"],
      [namespace |-> "monitoring", role |-> "logs"] }

NoArgs ==
    [otel_service_name |-> "", otel_endpoint |-> "", otel_metric_name |-> "",
     otel_attributes |-> [namespace |-> "", role |-> ""]]

NoSendArgs ==
    [otel_service_name |-> "", otel_endpoint |-> "", otel_metric_name |-> "",
     otel_attributes |-> [namespace |-> "", role |-> ""], value |-> NoValue]

(* An item of page['Contents'] is a dict: <<n>> is one with 'Size' = n,    *)
(* <<>> one without the key.                                               *)
Sizes == 0 .. MaxSize
Items == {<<s>> : s \in Sizes} \cup {<<>>}

SeqsUpTo(S, n) == UNION {[1 .. k -> S] : k \in 0 .. n}

(* A page is a dict too: 'Contents' may be absent.  list_objects_v2 leaves *)
(* the key out when the page lists no key, which is how an empty bucket    *)
(* arrives: one page, no 'Contents', no continuation token.                *)
PageBodies ==
    {[hasContents |-> TRUE, Contents |-> c] : c \in SeqsUpTo(Items, MaxObjs)}
    \cup {[hasContents |-> FALSE, Contents |-> <<>>]}

NoPage == [hasContents |-> FALSE, Contents |-> <<>>, token |-> NoToken]

(* The bytes a page lists, as the service counts them. *)
PageBytes(p) ==
    LET size(i) == IF p.Contents[i] = <<>> THEN 0 ELSE p.Contents[i][1]
        sumTo[k \in 0 .. Len(p.Contents)] ==
            IF k = 0 THEN 0 ELSE sumTo[k - 1] + size(k)
    IN  sumTo[Len(p.Contents)]

HasItemWithoutSize(p) == \E i \in 1 .. Len(p.Contents) : p.Contents[i] = <<>>

----------------------------------------------------------------------------
(* get_s3_bucket_size_bytes *)

(* for item in items: total_size += item['Size'].  A missing 'Size' raises *)
(* KeyError at that item; what was added before it stays added.            *)
RECURSIVE FoldItemsSkipping(_, _)
FoldItemsSkipping(t, items) ==
    IF items = <<>> THEN [total |-> t, ok |-> TRUE]
    ELSE IF Head(items) = <<>> THEN FoldItemsSkipping(t, Tail(items))
    ELSE FoldItemsSkipping(t + Head(items)[1], Tail(items))

RECURSIVE FoldItems(_, _)
FoldItems(t, items) ==
    IF items = <<>> THEN [total |-> t, ok |-> TRUE]
    ELSE IF Head(items) = <<>> THEN [total |-> t, ok |-> FALSE]
    ELSE FoldItems(t + Head(items)[1], Tail(items))

(* The page iterator has a next page: before the first request, and while  *)
(* the last page carried a continuation token.                             *)
HasNextFirstPageOnly == requests = <<>>

HasNext == requests = <<>> \/ token # NoToken

(* The value line 45 returns. *)
ReturnValueMb == total_size \div (1024 * 1024)

ReturnValue == total_size

(* collect_metric is entered: lines 81 and 30-37.  The providers the       *)
(* previous invocation left unreferenced are gone; the process-wide one    *)
(* stays.                                                                  *)
collect_metric(svc, ep, name, attrs) ==
    /\ pc \in {"idle", "returned", "raised"}
    /\ inv < calls
    /\ inv' = inv + 1
    /\ args' = [otel_service_name |-> svc, otel_endpoint |-> ep,
                otel_metric_name |-> name, otel_attributes |-> attrs]
    /\ pc' = "iter"
    /\ error' = "none"
    /\ total_size' = 0
    /\ page' = NoPage
    /\ token' = NoToken
    /\ s3_size_bytes' = NoValue
    /\ requests' = <<>>
    /\ returned' = <<>>
    /\ expected' = 0
    /\ visited' = 0
    /\ fault' = FALSE
    /\ noSizeSeen' = FALSE
    /\ providers' = [id \in DOMAIN providers \cap {globalProvider} |-> providers[id]]
    /\ sendArgs' = NoSendArgs
    /\ prevValue' = IF sendCalls = 0 THEN prevValue ELSE sendArgs.value
    /\ sendCalls' = 0
    /\ flushes' = 0
    /\ exportState' = "none"
    /\ inflight' = {}
    /\ collector' = {}
    /\ UNCHANGED <<calls, globalProvider>>

(* for page in page_iterator (line 38): the iterator asks the service for  *)
(* the next page with the token it holds, and the service answers.         *)
RequestPage(body, more) ==
    /\ pc = "iter"
    /\ HasNext
    /\ Len(requests) < MaxPages
    /\ more => Len(requests) + 1 < MaxPages
    /\ LET next == IF more THEN Len(requests) + 1 ELSE NoToken
           p == [hasContents |-> body.hasContents, Contents |-> body.Contents,
                 token |-> next]
       IN  /\ page' = p
           /\ token' = next
           /\ requests' = Append(requests, token)
           /\ returned' = Append(returned, next)
           /\ expected' = expected + PageBytes(p)
           /\ fault' = (fault \/ ~p.hasContents \/ HasItemWithoutSize(p))
           /\ noSizeSeen' = (noSizeSeen \/ HasItemWithoutSize(p))
    /\ pc' = "fold"
    /\ UNCHANGED <<calls, inv, error, args, total_size, s3_size_bytes, visited,
                   globalProvider, providers, sendArgs, prevValue, sendCalls, flushes,
                   exportState, inflight, collector>>

(* The request itself fails (unreachable, authentication rejected): the    *)
(* iterator raises botocore's ClientError out of line 38.                  *)
RequestPageFails ==
    /\ pc = "iter"
    /\ HasNext
    /\ Len(requests) < MaxPages
    /\ requests' = Append(requests, token)
    /\ fault' = TRUE
    /\ pc' = "raised"
    /\ error' = "ClientError"
    /\ UNCHANGED <<calls, inv, args, total_size, page, token, s3_size_bytes,
                   returned, expected, visited, noSizeSeen, globalProvider, providers,
                   sendArgs, prevValue, sendCalls, flushes, exportState, inflight,
                   collector>>

(* The loop body, lines 39-41. *)
FoldPageSwallowing ==
    /\ pc = "fold"
    /\ visited' = visited + 1
    /\ total_size' = FoldItemsSkipping(total_size, page.Contents).total
    /\ pc' = "iter"
    /\ UNCHANGED <<error>>
    /\ UNCHANGED <<calls, inv, args, page, token, s3_size_bytes, requests,
                   returned, expected, fault, noSizeSeen, globalProvider, providers,
                   sendArgs, prevValue, sendCalls, flushes, exportState, inflight,
                   collector>>

FoldPage ==
    /\ pc = "fold"
    /\ visited' = visited + 1
    /\ IF ~page.hasContents
       THEN /\ pc' = "raised"
            /\ error' = "KeyError"
            /\ UNCHANGED total_size
       ELSE LET r == FoldItems(total_size, page.Contents)
            IN  /\ total_size' = r.total
                /\ IF r.ok
                   THEN pc' = "iter" /\ UNCHANGED error
                   ELSE pc' = "raised" /\ error' = "KeyError"
    /\ UNCHANGED <<calls, inv, args, page, token, s3_size_bytes, requests,
                   returned, expected, fault, noSizeSeen, globalProvider, providers,
                   sendArgs, prevValue, sendCalls, flushes, exportState, inflight,
                   collector>>

(* The iterator is exhausted: the loop ends, lines 43-44 print the size.   *)
LoopExit ==
    /\ pc = "iter"
    /\ ~HasNext
    /\ pc' = "summed"
    /\ UNCHANGED <<calls, inv, error, args, total_size, page, token,
                   s3_size_bytes, requests, returned, expected, visited, fault, noSizeSeen,
                   globalProvider, providers, sendArgs, prevValue, sendCalls, flushes,
                   exportState, inflight, collector>>

(* return total_size (line 45) into s3_size_bytes (line 81), and the call  *)
(* of send_metric (lines 88-94).                                           *)
ReturnTotal ==
    /\ pc = "summed"
    /\ s3_size_bytes' = ReturnValue
    /\ sendArgs' = [otel_service_name |-> args.otel_service_name,
                    otel_endpoint |-> args.otel_endpoint,
                    otel_metric_name |-> args.otel_metric_name,
                    otel_attributes |-> args.otel_attributes,
                    value |-> ReturnValue]
    /\ sendCalls' = sendCalls + 1
    /\ pc' = "build"
    /\ UNCHANGED <<calls, inv, error, args, total_size, page, token, requests,
                   returned, expected, visited, fault, noSizeSeen, globalProvider,
                   providers, flushes, exportState, inflight, collector, prevValue>>

----------------------------------------------------------------------------
(* send_metric *)

(* metrics.set_meter_provider (line 61) sets the process-wide provider     *)
(* once: a later call logs "Overriding of current MeterProvider is not     *)
(* allowed" and leaves the first provider in place.                        *)
SetMeterProvider(current, new) == IF current = NoProvider THEN new ELSE current

(* gauge.set (lines 64-67): a gauge keeps the last value per attribute set. *)
GaugeSet(pending, name, attrs, value) ==
    {o \in pending : ~(o.name = name /\ o.attributes = attrs)}
    \cup {[name |-> name, attributes |-> attrs, value |-> value]}

(* Lines 55-61: exporter, reader, resource and provider are built; the     *)
(* provider of this call has the invocation's number as its id.            *)
BuildProvider ==
    /\ pc = "build"
    /\ providers' = providers @@
          (inv :> [service |-> sendArgs.otel_service_name,
                   endpoint |-> sendArgs.otel_endpoint,
                   gauges |-> {}, pending |-> {}])
    /\ globalProvider' = SetMeterProvider(globalProvider, inv)
    /\ pc' = "gauge"
    /\ UNCHANGED <<calls, inv, error, args, total_size, page, token,
                   s3_size_bytes, requests, returned, expected, visited, fault, noSizeSeen,
                   sendArgs, prevValue, sendCalls, flushes, exportState, inflight,
                   collector>>

(* Lines 62-63: metrics.get_meter asks the process-wide provider for the   *)
(* meter, and the gauge is registered with that meter.                     *)
CreateGauge ==
    /\ pc = "gauge"
    /\ providers' = [providers EXCEPT ![globalProvider].gauges =
                        @ \cup {sendArgs.otel_metric_name}]
    /\ pc' = "set"
    /\ UNCHANGED <<calls, inv, error, args, total_size, page, token,
                   s3_size_bytes, requests, returned, expected, visited, fault, noSizeSeen,
                   globalProvider, sendArgs, prevValue, sendCalls, flushes, exportState,
                   inflight, collector>>

(* Lines 64-67: the observation goes to the provider that owns the gauge.  *)
SetGauge ==
    /\ pc = "set"
    /\ providers' = [providers EXCEPT ![globalProvider].pending =
                        GaugeSet(@, sendArgs.otel_metric_name,
                                 sendArgs.otel_attributes, sendArgs.value)]
    /\ pc' = "flush"
    /\ UNCHANGED <<calls, inv, error, args, total_size, page, token,
                   s3_size_bytes, requests, returned, expected, visited, fault, noSizeSeen,
                   globalProvider, sendArgs, prevValue, sendCalls, flushes, exportState,
                   inflight, collector>>

(* Line 68, the call: provider is the local of line 60, and its reader     *)
(* collects what that provider holds and hands it to the exporter.         *)
ForceFlushNoWait ==
    /\ pc = "flush"
    /\ flushes' = flushes + 1
    /\ inflight' = {[service |-> providers[inv].service,
                     endpoint |-> providers[inv].endpoint,
                     name |-> o.name, attributes |-> o.attributes,
                     value |-> o.value] : o \in providers[inv].pending}
    /\ providers' = [providers EXCEPT ![inv].pending = {}]
    /\ exportState' = "inflight"
    /\ pc' = "returned"
    /\ UNCHANGED <<calls, inv, error, args, total_size, page, token,
                   s3_size_bytes, requests, returned, expected, visited, fault, noSizeSeen,
                   globalProvider, sendArgs, prevValue, sendCalls, collector>>

ForceFlush ==
    /\ pc = "flush"
    /\ flushes' = flushes + 1
    /\ inflight' = {[service |-> providers[inv].service,
                     endpoint |-> providers[inv].endpoint,
                     name |-> o.name, attributes |-> o.attributes,
                     value |-> o.value] : o \in providers[inv].pending}
    /\ providers' = [providers EXCEPT ![inv].pending = {}]
    /\ exportState' = "inflight"
    /\ pc' = "flushing"
    /\ UNCHANGED <<calls, inv, error, args, total_size, page, token,
                   s3_size_bytes, requests, returned, expected, visited, fault, noSizeSeen,
                   globalProvider, sendArgs, prevValue, sendCalls, collector>>

(* Line 68, the outcome.  "ok": the collector took the export.  "failed":  *)
(* the exporter could not deliver; the SDK logs that and force_flush       *)
(* returns, and line 68 drops what it returns.  "raised": force_flush      *)
(* raised, and nothing in send_metric, collect_metric or main catches it.  *)
FlushOutcomes == {"ok", "failed", "raised"}

FlushCompletes(outcome) ==
    /\ pc = "flushing"
    /\ exportState = "inflight"
    /\ exportState' = outcome
    /\ collector' = IF outcome = "ok" THEN collector \cup inflight ELSE collector
    /\ inflight' = {}
    /\ IF outcome = "raised"
       THEN pc' = "raised" /\ error' = "Exception"
       ELSE pc' = "returned" /\ UNCHANGED error
    /\ UNCHANGED <<calls, inv, args, total_size, page, token, s3_size_bytes,
                   requests, returned, expected, visited, fault, noSizeSeen,
                   globalProvider, providers, sendArgs, prevValue, sendCalls, flushes>>

(* main (lines 115-128): the process ends with status 0 when collect_metric *)
(* returns and with status 1 when an exception leaves it; -1 while it runs. *)
ExitStatus ==
    IF pc = "returned" THEN 0 ELSE IF pc = "raised" THEN 1 ELSE -1

----------------------------------------------------------------------------
(* Specifications. *)

InitCalls(n) ==
    /\ calls = n
    /\ inv = 0
    /\ pc = "idle"
    /\ error = "none"
    /\ args = NoArgs
    /\ total_size = 0
    /\ page = NoPage
    /\ token = NoToken
    /\ s3_size_bytes = NoValue
    /\ requests = <<>>
    /\ returned = <<>>
    /\ expected = 0
    /\ visited = 0
    /\ fault = FALSE
    /\ noSizeSeen = FALSE
    /\ globalProvider = NoProvider
    /\ providers = <<>>
    /\ sendArgs = NoSendArgs
    /\ prevValue = NoValue
    /\ sendCalls = 0
    /\ flushes = 0
    /\ exportState = "none"
    /\ inflight = {}
    /\ collector = {}

(* The program as main runs it: one collect_metric per process. *)
Init == InitCalls(1)

(* A process that imports the module and calls collect_metric repeatedly. *)
InitRepeat == InitCalls(MaxInvocations)

Next ==
    \/ \E svc \in ServiceNames, ep \in Endpoints, name \in MetricNames,
          attrs \in AttributeSets : collect_metric(svc, ep, name, attrs)
    \/ \E body \in PageBodies, more \in BOOLEAN : RequestPage(body, more)
    \/ RequestPageFails
    \/ FoldPage
    \/ LoopExit
    \/ ReturnTotal
    \/ BuildProvider
    \/ CreateGauge
    \/ SetGauge
    \/ ForceFlush
    \/ \E outcome \in FlushOutcomes : FlushCompletes(outcome)

Spec == Init /\ [][Next]_vars

SpecRepeat == InitRepeat /\ [][Next]_vars

----------------------------------------------------------------------------
(* What the specification's names stand for in the code. *)

(* ListingError: any exception that leaves the listing loop. *)
ListingErrors == {"KeyError", "ClientError"}

(* ExportError: an exception that leaves provider.force_flush(). *)
ExportErrors == {"Exception"}

(* The reporter's state, read off the position in send_metric. *)
ReporterState ==
    IF sendCalls = 0 \/ pc \in {"build", "gauge"} THEN "Idle"
    ELSE IF pc \in {"set", "flush"} THEN "Building"
    ELSE IF pc = "flushing" THEN "Flushing"
    ELSE IF pc = "returned" THEN "Done"
    ELSE "Failed"

Last(s) == s[Len(s)]

----------------------------------------------------------------------------
(* C1: for every listing, pages with zero objects included, the aggregator *)
(* ends with exactly the sum of all listed sizes, and a page with zero     *)
(* objects is not an error: the only page the loop may fail on is one with *)
(* an item that lacks its size.                                            *)
C1_ExactSumOfEveryListing ==
    /\ pc = "summed" => total_size = expected
    /\ (pc = "raised" /\ error = "KeyError") => noSizeSeen

(* C2: the first request carries no token, each later request carries the  *)
(* token the previous page returned, every page received is visited once,  *)
(* no page but the last received carries no token, and the loop ends only  *)
(* after a page without a token.                                           *)
C2_PaginationExhaustive ==
    /\ requests # <<>> => requests[1] = NoToken
    /\ \A i \in 2 .. Len(requests) :
          requests[i] = returned[i - 1] /\ returned[i - 1] # NoToken
    /\ \A i \in 1 .. Len(requests), j \in 1 .. Len(requests) :
          i # j => requests[i] # requests[j]
    /\ \A i \in 1 .. Len(returned) - 1 : returned[i] # NoToken
    /\ visited = IF pc = "fold" THEN Len(returned) - 1 ELSE Len(returned)
    /\ pc \in {"summed", "build", "gauge", "set", "flush", "flushing", "returned"}
          => returned # <<>> /\ Last(returned) = NoToken

C2_Witness ==
    /\ pc = "summed"
    /\ Len(requests) = MaxPages
    /\ visited = MaxPages

(* C3: once the service has failed a request or sent a page the loop       *)
(* cannot read, the aggregator raises at once, asks for no further page    *)
(* and returns nothing, whatever it had summed before.                     *)
C3_FailFastOnListingError ==
    /\ [](fault => /\ pc \in {"fold", "raised"}
                   /\ pc = "raised" => error \in ListingErrors
                   /\ s3_size_bytes = NoValue
                   /\ sendCalls = 0)
    /\ [][fault => /\ requests' = requests
                   /\ s3_size_bytes' = NoValue
                   /\ pc' = "raised"]_vars

C3_Witness ==
    /\ pc = "raised"
    /\ error = "KeyError"
    /\ total_size > 0
    /\ Len(requests) >= 2

(* C4: when aggregation fails, send_metric is never entered: no provider   *)
(* is built or registered, no observation is set, nothing is flushed and   *)
(* nothing reaches the collector.                                          *)
C4_NoExportOnAggregationFailure ==
    fault => /\ sendCalls = 0
             /\ flushes = 0
             /\ exportState = "none"
             /\ inflight = {}
             /\ collector = {}
             /\ DOMAIN providers = {}
             /\ globalProvider = NoProvider

C4_Witness ==
    /\ fault
    /\ pc = "raised"
    /\ visited >= 2

(* C5: a failed export ends the invocation with ExportError and a non-zero *)
(* exit status, and the exit status is 0 only when the export succeeded.   *)
C5_ExportFailureIsAnError ==
    /\ exportState \in {"failed", "raised"}
          => ExitStatus = 1 /\ error \in ExportErrors
    /\ ExitStatus = 0 => exportState = "ok"

(* C6: send_metric flushes exactly once and is back only after the export  *)
(* has completed: never while it is in flight, never without a flush.      *)
C6_SingleSynchronousFlush ==
    /\ flushes <= 1
    /\ pc \in {"build", "gauge", "set", "flush"} => flushes = 0
    /\ exportState = "inflight" <=> pc = "flushing"
    /\ pc = "returned" => flushes = 1 /\ exportState \in {"ok", "failed"}
    /\ (pc = "raised" /\ sendCalls = 1) => flushes = 1 /\ exportState = "raised"

C6_Witness ==
    /\ pc = "returned"
    /\ flushes = 1
    /\ exportState = "ok"

(* C7: every invocation of send_metric whose export succeeded has          *)
(* delivered exactly one observation, its own value under its own metric   *)
(* name, attributes and service name, also when an earlier invocation of   *)
(* the same process sent a different value before it.                      *)
C7_EachInvocationDelivers ==
    (pc = "returned" /\ exportState = "ok" /\ prevValue # sendArgs.value) =>
        collector = {[service |-> sendArgs.otel_service_name,
                      endpoint |-> sendArgs.otel_endpoint,
                      name |-> sendArgs.otel_metric_name,
                      attributes |-> sendArgs.otel_attributes,
                      value |-> sendArgs.value]}

(* C9: send_metric is called at most once, only after the page without a   *)
(* token has been folded, with the aggregated total and with the service   *)
(* name, metric name and attributes collect_metric was given; and the      *)
(* observation it sets carries that name, those attributes and that value. *)
C9_SendAfterAggregation ==
    /\ sendCalls <= 1
    /\ pc \in {"build", "gauge", "set", "flush", "flushing", "returned"}
          => sendCalls = 1
    /\ sendCalls = 1 =>
          /\ ~fault
          /\ returned # <<>> /\ Last(returned) = NoToken
          /\ visited = Len(returned)
          /\ total_size = expected
          /\ s3_size_bytes = total_size
          /\ sendArgs = [otel_service_name |-> args.otel_service_name,
                         otel_endpoint |-> args.otel_endpoint,
                         otel_metric_name |-> args.otel_metric_name,
                         otel_attributes |-> args.otel_attributes,
                         value |-> expected]
          /\ \A id \in DOMAIN providers : \A o \in providers[id].pending :
                o = [name |-> args.otel_metric_name,
                     attributes |-> args.otel_attributes,
                     value |-> expected]
          /\ \A o \in inflight \cup collector :
                /\ o.service = args.otel_service_name
                /\ o.name = args.otel_metric_name
                /\ o.attributes = args.otel_attributes
                /\ o.value = expected

C9_Witness ==
    /\ pc = "returned"
    /\ Len(returned) = MaxPages
    /\ collector # {}
    /\ \E o \in collector : o.value > MaxSize

(* C10: the reporter is Done exactly when the flush succeeded and Failed   *)
(* exactly when the flush raised ExportError.                              *)
C10_DoneIffFlushSucceeded ==
    /\ ReporterState = "Done" <=> (sendCalls = 1 /\ exportState = "ok")
    /\ ReporterState = "Failed" <=>
          (sendCalls = 1 /\ exportState = "raised" /\ error \in ExportErrors)

====
